---------------------------- MODULE Spec2Model ----------------------------
(***************************************************************************)
(* A model of torchmd/forces.py: the Forces engine (its constructor and    *)
(* candidate-pair construction, the checks at the head of compute, the     *)
(* bonds term, the 1-4 section, the chunked nonbonded evaluator with its   *)
(* Verlet-list cache, the external potential), calculate_distances and the *)
(* torsion and Lennard-Jones kernels.                                      *)
(*                                                                         *)
(* Conventions                                                             *)
(*  - Python's None is the empty tuple <<>> and a present value x is the   *)
(*    one-element tuple <<x>> (None, Some, Val below).                     *)
(*  - A tensor of index pairs is a sequence of pairs <<i, j>> of 0-based   *)
(*    atom ids; Python's a[lo:hi] is Slice(a, lo, hi).                     *)
(*  - Coordinates, box lengths, cutoff and skin are integers; a distance   *)
(*    is carried as its square, so "dist <= r" is "dist^2 <= r^2, r >= 0". *)
(*  - The non-finite floats are the numbers NaN, PosInf and NegInf, out of *)
(*    the range of the finite values.                                      *)
(*  - Every nonbonded kernel of one call is evaluated on the same filtered *)
(*    pair list and its energy and force are sums over that list, so the   *)
(*    model records the list of evaluated pairs of each call.              *)
(*                                                                         *)
(* Specifications                                                          *)
(*  - SpecIdx:    Forces.__init__ building the candidate pairs, in memory  *)
(*                or paged to non-interactions.h5.                         *)
(*  - Spec:       an engine with nonbonded terms on the device, host or    *)
(*                disk tier under single-shot and trajectory-mode calls.   *)
(*  - SpecVerlet: a trajectory of steps 0, 1, 2, ... on the device tier.   *)
(*  - SpecJump:   increasing, not necessarily consecutive, step indices.   *)
(*  - SpecBatch:  a trajectory of a batch of two systems.                  *)
(*  - SpecBond:   an engine with only the bonds term.                      *)
(*  - SpecGuard:  the checks at the head of compute.                       *)
(*  - SpecNew:    Forces.__init__ from its terms argument on.              *)
(*  - Spec14:     engines with the 1-4 term.                               *)
(*  - SpecWrap:   calculate_distances on degenerate and periodic boxes.    *)
(*  - SpecKernel: evaluate_torsion and evaluate_LJ_internal on their own.  *)
(*  - SpecStream: the host tier's single-shot streaming, one loop          *)
(*                iteration at a time, under weak fairness.                *)
(***************************************************************************)
EXTENDS Integers, Sequences, FiniteSets, TLC

VARIABLES
    natoms,        \* self.natoms
    excludepairs,  \* parameters.get_exclusions(exclusions)
    energies,      \* self.energies, as a set of term names
    cutoff,        \* self.cutoff (None or a distance)
    external,      \* self.external (None or the external potential)
    ava_idx,       \* self.ava_idx (None or the candidate pairs)
    ava_dev,       \* device holding self.ava_idx: "cuda", "cpu" or "none"
    h5,            \* the file non-interactions.h5 (None or its rows)
    neighborlist,  \* self.neighborlist (None or the cached pairs)
    par,           \* the bonded topology of self.par used here
    pos,           \* the caller's coordinates of the system (SpecBatch: per system)
    box,           \* the caller's diagonal box lengths (SpecBatch: per system)
    forces,        \* the caller-owned force buffer (SpecBatch: per system)
    run,           \* the integrator's run: next step index, reconstep, delt_r;
                   \* in SpecStream the position inside the streaming section
    built,         \* the last reconstruction: None or its coordinates and step
    out            \* what the last call did and returned

vars == <<natoms, excludepairs, energies, cutoff, external, ava_idx, ava_dev, h5,
          neighborlist, par, pos, box, forces, run, built, out>>

-----------------------------------------------------------------------------
(* Python values *)

None == <<>>
Some(x) == <<x>>
Val(o) == o[1]

Min(a, b) == IF a <= b THEN a ELSE b

\* Python's a[lo:hi] for 0 <= lo, 0 <= hi
Slice(a, lo, hi) ==
    IF lo >= Min(hi, Len(a)) THEN <<>> ELSE SubSeq(a, lo + 1, Min(hi, Len(a)))

\* Python's a[lo:]
SliceFrom(a, lo) == Slice(a, lo, Len(a))

RECURSIVE Flatten(_)
Flatten(ss) == IF ss = <<>> THEN <<>> ELSE Head(ss) \o Flatten(Tail(ss))

Range(s) == {s[k] : k \in 1..Len(s)}
NoDup(s) == \A a, b \in 1..Len(s) : s[a] = s[b] => a = b

-----------------------------------------------------------------------------
(* Candidate-pair construction: Forces._make_indeces *)

\* fmatrix with the exclusions cleared in the listed orientation only
MemMatrixListedOnly(n, ex) ==
    {c \in (0..n-1) \X (0..n-1) : \A k \in 1..Len(ex) : c # <<ex[k][1], ex[k][2]>>}

\* fmatrix after lines 1124-1128: the cells still True
MemMatrix(n, ex) ==
    {c \in (0..n-1) \X (0..n-1) :
        \A k \in 1..Len(ex) : c # <<ex[k][1], ex[k][2]>> /\ c # <<ex[k][2], ex[k][1]>>}

\* np.triu(fmatrix, +1): keep the cells strictly above the diagonal
TriuMem(cells) == {c \in cells : c[2] - c[1] >= 1}

\* np.vstack(np.where(m)).T: the True cells in row-major order
RECURSIVE WhereSeq(_)
WhereSeq(cells) ==
    IF cells = {} THEN <<>>
    ELSE LET c == CHOOSE x \in cells :
                      \A y \in cells : x[1] < y[1] \/ (x[1] = y[1] /\ x[2] <= y[2])
         IN <<c>> \o WhereSeq(cells \ {c})

\* the try block, lines 1123-1131
MakeIndecesMem(n, ex) == WhereSeq(TriuMem(MemMatrix(n, ex)))


\* np.lexsort((excludepairs[:,1], excludepairs[:,0])): by first, then second index
RECURSIVE LexSort(_)
LexSort(ex) ==
    IF ex = <<>> THEN <<>>
    ELSE LET k == CHOOSE a \in 1..Len(ex) :
                      \A b \in 1..Len(ex) :
                          \/ ex[a][1] < ex[b][1]
                          \/ (ex[a][1] = ex[b][1] /\ ex[a][2] <= ex[b][2])
         IN <<ex[k]>> \o LexSort(SubSeq(ex, 1, k - 1) \o SubSeq(ex, k + 1, Len(ex)))

\* numpy accepts a row index i of an array of `rows` rows when -rows <= i < rows
IndexOK(i, rows) == -rows <= i /\ i < rows
NormIdx(i, rows) == IF i < 0 THEN i + rows ELSE i

\* fmatrix[excludepairs_i[:, 0] - length0, excludepairs_i[:, 1]] = False on a
\* block of `rows` rows, np.triu(fmatrix, length0 + 1), np.where and the shift
\* of the row index by length0 (lines 1174-1180 and 1191-1195).
\* None stands for numpy's IndexError.
BlockPairs(n, rows, length0, exi) ==
    IF \E k \in 1..Len(exi) : ~IndexOK(exi[k][1] - length0, rows) THEN None
    ELSE LET masked == {<<NormIdx(exi[k][1] - length0, rows), exi[k][2]>> :
                            k \in 1..Len(exi)}
             cells  == {c \in (0..rows-1) \X (0..n-1) :
                            c \notin masked /\ c[2] - c[1] >= length0 + 1}
             local  == WhereSeq(cells)
         IN Some([k \in 1..Len(local) |-> <<local[k][1] + length0, local[k][2]>>])

\* the scan of lines 1164-1172: the first j >= m with excludepairs[j,0] >= length,
\* or l_excludepairs when there is none
ScanTo(ex, m, length) ==
    LET hits == {j \in m..Len(ex)-1 : ex[j + 1][1] >= length}
    IN IF hits = {} THEN Len(ex) ELSE CHOOSE j \in hits : \A h \in hits : j <= h

\* the while loop of lines 1161-1185 followed by the remainder block of lines
\* 1187-1196. reads[k] is the k-th value of
\* int(psutil.virtual_memory().free/singlesize/natoms). ex is sorted.
\* The result is [status, rows]: the rows appended to the table.
RECURSIVE PagedLoop(_, _, _, _, _, _, _, _, _)
PagedLoop(n, ex, reads, k, length, length_i, length0, m, rows) ==
    IF length <= n
    THEN LET apply == Len(ex) > 0 /\ m < Len(ex) - 1
             m2    == IF apply THEN ScanTo(ex, m, length) ELSE m
             exi   == IF apply THEN Slice(ex, m, m2) ELSE <<>>
             blk   == BlockPairs(n, length_i, length0, exi)
         IN IF blk = None THEN [status |-> "IndexError", rows |-> rows]
            ELSE IF k + 1 > Len(reads)
            THEN [status |-> "reads", rows |-> rows \o Val(blk)]
            ELSE PagedLoop(n, ex, reads, k + 1, length + reads[k + 1],
                           reads[k + 1], length, m2, rows \o Val(blk))
    ELSE LET exi == IF Len(ex) > 0 /\ m < Len(ex) THEN SliceFrom(ex, m) ELSE <<>>
             blk == BlockPairs(n, n - length0, length0, exi)
         IN IF blk = None THEN [status |-> "IndexError", rows |-> rows]
            ELSE [status |-> "ok", rows |-> rows \o Val(blk)]

\* the except MemoryError branch, lines 1140-1197, when the file does not exist
MakeIndecesPaged(n, ex, reads) ==
    PagedLoop(n, LexSort(ex), reads, 1, reads[1], reads[1], 0, 0, <<>>)

-----------------------------------------------------------------------------
(* Geometry: wrap_dist and calculate_distances *)

\* a rounding that truncates towards minus infinity instead of to the nearest
RoundDivFloor(n, d) == n \div d

\* torch.round(n / d) for d > 0: to the nearest integer, halves to the even one
RoundDiv(n, d) ==
    LET q == n \div d
        r == n % d
    IN IF 2 * r < d THEN q
       ELSE IF 2 * r > d THEN q + 1
       ELSE IF q % 2 = 0 THEN q ELSE q + 1

\* the three non-finite floats, as numbers outside the range of every finite
\* value of the model
PosInf == 1000000
NegInf == -1000000
NaN == 2000000
Finite(x) == NegInf < x /\ x < PosInf

\* x - y on floats
FSub(x, y) ==
    IF x = NaN \/ y = NaN THEN NaN
    ELSE IF Finite(x) /\ Finite(y) THEN x - y
    ELSE IF x = y THEN NaN
    ELSE IF Finite(y) THEN x
    ELSE IF y = PosInf THEN NegInf ELSE PosInf

\* wrap_dist(dist, box) for one displacement vector. A box with only some
\* lengths zero divides by zero on those axes: dist / 0 is an infinity or NaN,
\* its product with the length 0 is NaN. On the other axes a non-finite
\* displacement gives inf - inf or NaN.
wrap_dist(v, b) ==
    IF b = None \/ (\A c \in 1..3 : b[c] = 0) THEN v
    ELSE [c \in 1..3 |-> IF b[c] = 0 THEN NaN
                         ELSE IF Finite(v[c]) THEN v[c] - b[c] * RoundDiv(v[c], b[c])
                         ELSE NaN]

\* the displacement taken from the second atom to the first
DirVecReversed(p, b, pr) ==
    wrap_dist([c \in 1..3 |-> FSub(p[pr[2] + 1][c], p[pr[1] + 1][c])], b)

\* direction_vec of calculate_distances for the pair pr = <<i, j>>
DirVec(p, b, pr) ==
    wrap_dist([c \in 1..3 |-> FSub(p[pr[1] + 1][c], p[pr[2] + 1][c])], b)

\* the square of torch.norm(direction_vec)
Dist2(p, b, pr) ==
    LET v == DirVec(p, b, pr)
    IN IF \E c \in 1..3 : v[c] = NaN THEN NaN
       ELSE IF \E c \in 1..3 : ~Finite(v[c]) THEN PosInf
       ELSE v[1] * v[1] + v[2] * v[2] + v[3] * v[3]

\* dist <= r for a distance given by its square (false for inf and NaN)
WithinSq(d2, r) == Finite(d2) /\ r >= 0 /\ d2 <= r * r

-----------------------------------------------------------------------------
(* The nonbonded evaluator of Forces.compute, for one system *)

\* a filter that drops the pairs exactly at the cutoff: dist < self.cutoff
filter_by_cutoff_strict(pairs, p, b) ==
    LET Keep(pr) == Dist2(p, b, pr) < Val(cutoff) * Val(cutoff)
    IN SelectSeq(pairs, Keep)

\* _filter_by_cutoff applied to the pair tensor: dist <= self.cutoff
filter_by_cutoff(pairs, p, b) ==
    LET Keep(pr) == WithinSq(Dist2(p, b, pr), Val(cutoff))
    IN SelectSeq(pairs, Keep)

\* a Verlet list without its skin: dist <= self.cutoff
neighbor_verlet_list_noskin(pairs, p, b, delt_r) ==
    LET Keep(pr) == WithinSq(Dist2(p, b, pr), Val(cutoff))
    IN SelectSeq(pairs, Keep)

\* _neighbor_verlet_list applied to the pair tensor: dist <= self.cutoff + delt_r
neighbor_verlet_list(pairs, p, b, delt_r) ==
    LET Keep(pr) == WithinSq(Dist2(p, b, pr), Val(cutoff) + delt_r)
    IN SelectSeq(pairs, Keep)

\* "if self.cutoff is not None: ... = self._filter_by_cutoff(...)"
CutoffFiltered(pairs, p, b) ==
    IF cutoff # None THEN filter_by_cutoff(pairs, p, b) ELSE pairs

Nonbonded == {"electrostatics", "lj", "repulsion", "repulsioncg"}

\* self.require_distances
require_distances == energies \cap Nonbonded # {}

\* "if reconstep == None: reconstep = 10"
DefaultReconstep == 10

\* an omitted reconstep read as 2
EffReconstepTwo(a) == IF a.reconstep = None THEN 2 ELSE Val(a.reconstep)

EffReconstep(a) == IF a.reconstep = None THEN DefaultReconstep ELSE Val(a.reconstep)

\* a rebuild on every call
DueAlways(a) == TRUE

\* "if itstep % reconstep == 0"
Due(a) == Val(a.itstep) % EffReconstep(a) = 0

\* "if itstep != None and self.cutoff != None"
TrajMode(a) == a.itstep # None /\ cutoff # None

\* The rebuild of the host and disk tiers and of the fallback: the while loop
\* (lines 288-302, 519-533, 871-885) and the block after it (lines 304-312,
\* 535-541, 886-892). sizes[k] is the k-th value of int(meminfo.free.../(a2-a1)),
\* p1 and p the slice bounds, nl self.neighborlist, dr delt_r (None or a value).
\* Only the disk tier's last block defaults delt_r (lines 307-308); the host
\* tier and the fallback reach it with delt_r as the loop left it.
RECURSIVE RebuildLoop(_, _, _, _, _, _, _, _, _, _)
RebuildLoop(stored, tier, sizes, k, p1, p, nl, dr, ps, b) ==
    IF p < Len(stored)
    THEN LET dr1 == IF dr = None THEN cutoff ELSE dr
             vl  == neighbor_verlet_list(Slice(stored, p1, p), ps, b, Val(dr1))
         IN RebuildLoop(stored, tier, sizes, k + 1, p, p + sizes[k + 1],
                        Some(<<>> \o vl), dr1, ps, b)
    ELSE LET dr1 == IF tier = "disk" /\ dr = None THEN cutoff ELSE dr
         IN IF dr1 = None \/ nl = None
            THEN [status |-> "TypeError", nl |-> nl]
            ELSE [status |-> "ok",
                  nl |-> Some(Val(nl) \o
                              neighbor_verlet_list(SliceFrom(stored, p1), ps, b, Val(dr1)))]

\* The single-shot streaming of the host and disk tiers (lines 374-497 and
\* 602-722): the raw chunks stored[p1:p], ..., stored[p1:] in order.
RECURSIVE ChunkLoop(_, _, _, _, _)
ChunkLoop(stored, sizes, k, p1, p) ==
    IF p < Len(stored)
    THEN <<Slice(stored, p1, p)>> \o ChunkLoop(stored, sizes, k + 1, p, p + sizes[k + 1])
    ELSE <<SliceFrom(stored, p1)>>

\* what the nonbonded section hands back: how it ended, self.neighborlist
\* after it, the raw chunks it streamed, the pairs given to the kernels and,
\* when the rebuild branch was entered, how often its while loop ran
NbResult(status, nl, chunks, evaluated, rebuilt) ==
    [status |-> status, nl |-> nl, chunks |-> chunks, evaluated |-> evaluated,
     rebuilt |-> rebuilt]

\* the trajectory-mode body shared by the three tiers (lines 282-370, 513-600,
\* 730-795): the reconstep check, the rebuild on itstep % reconstep == 0, the
\* "start from 0" check and the evaluation of the cached list. nl is
\* self.neighborlist when the body starts.
TrajBody(nl, stored, tier, a, ps, b) ==
    LET rs == EffReconstep(a)
    IN IF rs <= 1 THEN NbResult("ValueError: reconstep", nl, <<>>, <<>>, None)
       ELSE LET due == Due(a)
                rb  == IF ~due
                       THEN [status |-> "ok", nl |-> nl]
                       ELSE IF tier = "device"
                       THEN [status |-> "ok",
                             nl |-> Some(neighbor_verlet_list(stored, ps, b,
                                      IF a.delt_r = None THEN Val(cutoff) ELSE Val(a.delt_r)))]
                       ELSE RebuildLoop(stored, tier, a.sizes, 1, 0, a.sizes[1],
                                        nl, a.delt_r, ps, b)
                rebuilt == IF ~due THEN None
                           ELSE IF tier = "device" THEN Some(0) ELSE Some(Len(a.sizes) - 1)
            IN IF rb.status # "ok" THEN NbResult(rb.status, rb.nl, <<>>, <<>>, rebuilt)
               ELSE IF rb.nl = None
               THEN NbResult("ValueError: start from 0", rb.nl, <<>>, <<>>, rebuilt)
               ELSE NbResult("ok", rb.nl, <<>>, filter_by_cutoff(Val(rb.nl), ps, b), rebuilt)

\* a single-shot body that drops the cached list
SingleBodyClearing(nl, stored, tier, a, ps, b) ==
    NbResult("ok", None, <<stored>>, CutoffFiltered(stored, ps, b), None)

\* the single-shot body: the device tier evaluates self.ava_idx in one piece
\* (lines 796-849), the others chunk by chunk
SingleBody(nl, stored, tier, a, ps, b) ==
    LET chunks == IF tier = "device" THEN <<stored>>
                  ELSE ChunkLoop(stored, a.sizes, 1, 0, a.sizes[1])
    IN NbResult("ok", nl, chunks,
                Flatten([k \in 1..Len(chunks) |-> CutoffFiltered(chunks[k], ps, b)]), None)

TierBody(nl, stored, tier, a, ps, b) ==
    IF TrajMode(a) THEN TrajBody(nl, stored, tier, a, ps, b)
    ELSE SingleBody(nl, stored, tier, a, ps, b)

\* the storage tier the engine's candidate pairs live on
Tier == IF ava_idx = None THEN "disk" ELSE IF ava_dev = "cuda" THEN "device" ELSE "host"

\* the tier section that evaluates the call: the device section leaves for its
\* "except RuntimeError" fallback (lines 852-1070) when a statement of its try
\* block (lines 728-851) runs out of device memory (a.oom)
Path(a) == IF Tier = "device" /\ a.oom THEN "fallback" ELSE Tier

\* the enabled nonbonded terms in the order 'for v in self.energies' visits them
NonbondedList ==
    SelectSeq(<<"electrostatics", "lj", "repulsion", "repulsioncg">>,
              LAMBDA v : v \in energies)

\* where the try block of a single-shot call can run out of memory: at line 728
\* (0), or in the kernel of a later term when the terms before it have added
\* their energy and force (lines 812-849); nothing is allocated after the last
OomTerms(oom) == IF oom THEN 0..(Len(NonbondedList) - 1) ELSE {0}

\* the three tier sections of compute, lines 266-1070, for one system of the
\* batch; nl is self.neighborlist when the system's turn starts
NonbondedSection(nl, a, ps, b) ==
    IF ava_idx = None
    THEN IF h5 = None THEN NbResult("OSError", nl, <<>>, <<>>, None)
         ELSE IF require_distances /\ Len(Val(h5)) > 0
              THEN TierBody(nl, Val(h5), "disk", a, ps, b)
              ELSE NbResult("ok", nl, <<>>, <<>>, None)
    ELSE IF require_distances /\ Len(Val(ava_idx)) > 0
         THEN TierBody(nl, Val(ava_idx), Path(a), a, ps, b)
         ELSE NbResult("ok", nl, <<>>, <<>>, None)

-----------------------------------------------------------------------------
(* The bonds term and Forces.compute, for one system with explicit forces.   *)
(* Lengths are in half angstroms and k0 in kcal/mol/A^2, so that the example *)
(* distance 1.5 A is the integer 3; the kernel divides by the unit's square. *)

\* torch.norm of a vector with integer components, exact on the coordinates
\* drawn here (perfect squares)
ISqrt(n) == CHOOSE r \in 0..n : r * r <= n /\ n < (r + 1) * (r + 1)

RECURSIVE SumSeq(_)
SumSeq(s) == IF s = <<>> THEN 0 ELSE Head(s) + SumSeq(Tail(s))

Zero3 == <<0, 0, 0>>
ZeroForces(n) == [k \in 1..n |-> Zero3]

\* evaluate_bonds for one bond: x = dist - d0, pot = k0 * x**2, force = 2 * k0 * x
evaluate_bonds(dist, prm) ==
    LET k0 == prm[1]
        x  == dist - prm[2]
    IN [pot |-> (k0 * x * x) \div 4, force |-> (2 * k0 * x) \div 2]

\* the bonds kept by lines 122-130 (all of them without a cutoff), as indices
BondsKept(ps, b) ==
    LET all == par.bonds[1]
        Keep(k) == cutoff = None \/ WithinSq(Dist2(ps, b, all[k]), Val(cutoff))
    IN SelectSeq([k \in 1..Len(all) |-> k], Keep)

\* bond_unitvec * force_coeff[:, None] of bond k (lines 117-135)
BondForceVec(ps, b, k) ==
    LET pr   == par.bonds[1][k]
        dv   == DirVec(ps, b, pr)
        dist == ISqrt(Dist2(ps, b, pr))
        fc   == evaluate_bonds(dist, par.bond_params[1][k]).force
    IN [c \in 1..3 |-> (dv[c] * fc) \div dist]

\* a bonds term whose force reaches only the first atom of each bond
BondsTermOneSided(ps, b) ==
    IF "bonds" \in energies /\ par.bonds # None
    THEN LET kept == BondsKept(ps, b)
             Contribution(k, atom, c) ==
                 IF par.bonds[1][kept[k]][1] = atom
                 THEN -BondForceVec(ps, b, kept[k])[c] ELSE 0
         IN [pot |-> SumSeq([k \in 1..Len(kept) |->
                               evaluate_bonds(ISqrt(Dist2(ps, b, par.bonds[1][kept[k]])),
                                              par.bond_params[1][kept[k]]).pot]),
             forces |-> [at \in 1..natoms |->
                           [c \in 1..3 |->
                              SumSeq([k \in 1..Len(kept) |-> Contribution(k, at - 1, c)])]]]
    ELSE [pot |-> 0, forces |-> ZeroForces(natoms)]

\* lines 116-137: [pot |-> pot[i]["bonds"], forces |-> what the two
\* index_add_ calls add to the buffer]
BondsTerm(ps, b) ==
    IF "bonds" \in energies /\ par.bonds # None
    THEN LET kept == BondsKept(ps, b)
             E(k) == evaluate_bonds(ISqrt(Dist2(ps, b, par.bonds[1][k])),
                                    par.bond_params[1][k]).pot
             Contribution(k, atom, c) ==
                 LET fv == BondForceVec(ps, b, kept[k])
                     pr == par.bonds[1][kept[k]]
                 IN (IF pr[1] = atom THEN -fv[c] ELSE 0) + (IF pr[2] = atom THEN fv[c] ELSE 0)
         IN [pot |-> SumSeq([k \in 1..Len(kept) |-> E(kept[k])]),
             forces |-> [at \in 1..natoms |->
                           [c \in 1..3 |->
                              SumSeq([k \in 1..Len(kept) |-> Contribution(k, at - 1, c)])]]]
    ELSE [pot |-> 0, forces |-> ZeroForces(natoms)]

MaxList == 3       \* neighbor lists of at most MaxList pairs are followed

\* the argument name of the call a, or Python's default when it is not given
Arg(a, name, default) == IF name \in DOMAIN a THEN a[name] ELSE default

\* torch.any(torch.isnan(pos)), line 97
AnyNaN(ps) == \E i \in DOMAIN ps : \E c \in 1..3 : ps[i][c] = NaN

\* a NaN check that says nothing
PrologueNoChecks(a, ps) == "ok"

\* lines 91-98: the two checks made before anything is written. requires_grad
\* is pos.requires_grad.
Prologue(a, ps) ==
    IF ~Arg(a, "explicit_forces", TRUE) /\ ~Arg(a, "requires_grad", FALSE)
    THEN "RuntimeError: requires_grad"
    ELSE IF AnyNaN(ps) THEN "RuntimeError: NaN"
    ELSE "ok"

\* a buffer that is not cleared
zero_kept(f) == f

\* forces.zero_(), line 109
zero_(f) == [at \in DOMAIN f |-> Zero3]

\* the buffer f after the index_add_ calls that add the contributions g
AddForces(f, g) == [at \in DOMAIN f |-> [c \in 1..3 |-> f[at][c] + g[at][c]]]

\* what every call records: its arguments, the tier section and the buffer
\* it was given
CallRecord(a) ==
    [op |-> "compute", path |-> Path(a),
     itstep |-> a.itstep, reconstep |-> a.reconstep, delt_r |-> a.delt_r,
     explicit_forces |-> Arg(a, "explicit_forces", TRUE),
     requires_grad |-> Arg(a, "requires_grad", FALSE),
     oom_terms |-> Arg(a, "oom_terms", 0),
     forces0 |-> forces]

\* a call that raises st in the prologue
Raised(a, st) ==
    /\ forces' = forces
    /\ neighborlist' = neighborlist
    /\ out' = CallRecord(a) @@
              [status |-> st,
               nl0 |-> IF neighborlist = None THEN "None" ELSE "same",
               chunks |-> <<>>, evaluated |-> <<>>, rebuilt |-> None,
               pot_bonds |-> None, pot_external |-> None, ext_calls |-> 0,
               lj14 |-> None, es14 |-> None]

\* lines 116-131: the bonds block ran and bound force_coeff
BondsRan == "bonds" \in energies /\ par.bonds # None

\* the 1-4 section, lines 181-232: every pair of self.par.idx14 goes to
\* evaluate_LJ_internal (no cutoff, no switching distance) when lj is enabled
\* and to evaluate_electrostatics (cutoff=None, rfa=False) when electrostatics
\* is; the filter by the cutoff is commented out. "del ... force_coeff" at
\* line 232 needs force_coeff bound, by one of the two kernels or by the
\* bonds block.
Section14 ==
    IF "1-4" \in energies /\ par.idx14 # None
    THEN [status |-> IF BondsRan \/ "lj" \in energies \/ "electrostatics" \in energies
                     THEN "ok" ELSE "UnboundLocalError",
          lj |-> IF "lj" \in energies
                 THEN Some([pairs |-> Val(par.idx14), cutoff |-> None, switch_dist |-> None])
                 ELSE None,
          es |-> IF "electrostatics" \in energies
                 THEN Some([pairs |-> Val(par.idx14), cutoff |-> None, rfa |-> FALSE])
                 ELSE None]
    ELSE [status |-> "ok", lj |-> None, es |-> None]

\* a call that raises st in the 1-4 section, after forces.zero_() and the
\* bonds term bt
Raised14(a, bt, st) ==
    /\ forces' = AddForces(zero_(forces), bt.forces)
    /\ neighborlist' = neighborlist
    /\ out' = CallRecord(a) @@
              [status |-> st,
               nl0 |-> IF neighborlist = None THEN "None" ELSE "same",
               chunks |-> <<>>, evaluated |-> <<>>, rebuilt |-> None,
               pot_bonds |-> None, pot_external |-> None, ext_calls |-> 0,
               lj14 |-> None, es14 |-> None]

\* lines 1072-1077 and 1080-1088 on the buffer f left by the terms:
\* self.external.calculate(pos, box) gives the energy and force of each
\* system; the force is added with explicit forces, and with
\* explicit_forces=False the buffer gets -grad of the energies that require
\* grad, the external one among them only when calculate returned it attached
\* to the graph of pos (grad).
ExternalForce(a, f) ==
    IF Arg(a, "explicit_forces", TRUE) \/ Val(external).grad
    THEN AddForces(f, Val(external).force)
    ELSE f

\* for each term of NonbondedList the pairs whose energy and force it has
\* added to pot[i] and forces[i] when the nonbonded section ends: what the
\* section that finished handed to the kernels (nb.evaluated) and, before it,
\* what the interrupted try block had already added (lines 797-849)
Added(a, nb) ==
    [j \in 1..Len(NonbondedList) |->
        (IF Path(a) = "fallback" /\ ~TrajMode(a) /\ j <= Arg(a, "oom_terms", 0)
         THEN CutoffFiltered(Val(ava_idx), pos, box)
         ELSE <<>>) \o nb.evaluated]

\* a call that passed the prologue: forces.zero_(), the bonds term bt, the
\* 1-4 section s14, the nonbonded section nb, the external potential, the
\* return. With
\* explicit_forces=False the terms add nothing to the buffer and lines
\* 1080-1088 write -grad of the summed energies into it, for the terms here
\* the same numbers.
Evaluated(a, bt, s14, nb) ==
    /\ forces' = IF external # None /\ nb.status = "ok"
                 THEN ExternalForce(a, AddForces(zero_(forces), bt.forces))
                 ELSE AddForces(zero_(forces), bt.forces)
    /\ neighborlist' = nb.nl
    /\ out' = CallRecord(a) @@
              [status |-> nb.status,
               nl0 |-> IF neighborlist = None THEN "None"
                       ELSE IF nb.nl = neighborlist THEN "same" ELSE "other",
               chunks |-> nb.chunks,
               evaluated |-> nb.evaluated,
               added |-> Added(a, nb),
               rebuilt |-> nb.rebuilt,
               pot_bonds |-> IF nb.status = "ok" THEN Some(bt.pot) ELSE None,
               pot_external |-> IF nb.status # "ok" THEN None
                                ELSE IF external = None THEN Some(0)
                                ELSE Some(Val(external).ene),
               ext_calls |-> IF external # None /\ nb.status = "ok" THEN 1 ELSE 0,
               lj14 |-> s14.lj, es14 |-> s14.es]
    \* the model follows the cache while it holds at most MaxList pairs
    /\ nb.nl # None => Len(Val(nb.nl)) <= MaxList

\* compute(pos, box, forces, returnDetails, explicit_forces, itstep, reconstep,
\* delt_r) for one system. a holds itstep,
\* reconstep, delt_r (None or a value), the chunk-size readings, whether the
\* device runs out of memory at line 728 and, when they are not the defaults,
\* explicit_forces and pos.requires_grad.
Compute(a) ==
    /\ IF Prologue(a, pos) # "ok" THEN Raised(a, Prologue(a, pos))
       ELSE IF Section14.status # "ok"
       THEN Raised14(a, BondsTerm(pos, box), Section14.status)
       ELSE Evaluated(a, BondsTerm(pos, box), Section14,
                      NonbondedSection(neighborlist, a, pos, box))
    /\ UNCHANGED <<natoms, excludepairs, energies, cutoff, external, ava_idx, ava_dev, h5,
                   par, pos, box>>

-----------------------------------------------------------------------------
(* Bounds of the construction model *)

MaxN == 3          \* atom counts 0..MaxN
MaxExcl == 2       \* exclusion lists of at most MaxExcl pairs
MaxBlock == 3      \* row-block readings 1..MaxBlock

\* The sequences of readings a loop consumes that advances by reads[k] >= 1
\* while the running total is <= n (stop: 0) or < n (stop: 1). The last
\* reading only has to end the loop: its least value stands for the larger
\* ones, after which the code slices the same blocks.
RECURSIVE ReadSeqs(_, _, _)
ReadSeqs(n, vals, stop) ==
    LET last == {v \in vals : v + stop > n}
    IN {<<b>> : b \in {v \in last : \A w \in last : v <= w}}
       \cup UNION {{<<b>> \o s : s \in ReadSeqs(n - b, vals, stop)} :
                       b \in {v \in vals : v + stop <= n}}

OrderedPairs(n) == {c \in (0..n-1) \X (0..n-1) : c[1] # c[2]}

RECURSIVE SeqsUpTo(_, _)
SeqsUpTo(S, len) ==
    IF len = 0 THEN {<<>>}
    ELSE LET shorter == SeqsUpTo(S, len - 1)
         IN shorter \cup {Append(s, e) : s \in {t \in shorter : Len(t) = len - 1}, e \in S}

NoPar == [bonds |-> None, bond_params |-> None]
Idle == [op |-> "new", status |-> "ok"]
NoRun == [k |-> 0, reconstep |-> None, delt_r |-> None]

\* Forces.__init__ reaching _make_indeces with a nonbonded term enabled
InitIdx ==
    /\ natoms \in 0..MaxN
    /\ excludepairs \in SeqsUpTo(OrderedPairs(natoms), MaxExcl)
    /\ energies = {"lj"}
    /\ cutoff = None
    /\ external = None
    /\ ava_idx = None
    /\ ava_dev = "none"
    /\ h5 = None
    /\ neighborlist = None
    /\ par = NoPar
    /\ pos = <<>>
    /\ box = <<0, 0, 0>>
    /\ forces = <<>>
    /\ run = NoRun
    /\ built = None
    /\ out = Idle

\* _make_indeces(n, ex, device) with file the table on disk before the call.
\* mem is where the try block ends: "cuda" (line 1134), "cpu" (the except
\* RuntimeError of lines 1135-1139) or "MemoryError" (the paged branch, which
\* returns None and leaves the pairs in the table).
IndecesResult(n, ex, file, mem, reads) ==
    IF mem # "MemoryError"
    THEN [ava_idx |-> Some(MakeIndecesMem(n, ex)), ava_dev |-> mem, h5 |-> file,
          op |-> "mem", status |-> "ok"]
    ELSE IF file # None
    THEN [ava_idx |-> None, ava_dev |-> "none", h5 |-> file, op |-> "paged", status |-> "ok"]
    ELSE [ava_idx |-> None, ava_dev |-> "none",
          h5 |-> Some(MakeIndecesPaged(n, ex, reads).rows),
          op |-> "paged", status |-> MakeIndecesPaged(n, ex, reads).status]

\* the call of _make_indeces at lines 58-64
MakeIndeces(mem, reads) ==
    /\ out.op = "new"
    /\ ava_idx' = IndecesResult(natoms, excludepairs, h5, mem, reads).ava_idx
    /\ ava_dev' = IndecesResult(natoms, excludepairs, h5, mem, reads).ava_dev
    /\ h5' = IndecesResult(natoms, excludepairs, h5, mem, reads).h5
    /\ out' = [op |-> IndecesResult(natoms, excludepairs, h5, mem, reads).op,
               status |-> IndecesResult(natoms, excludepairs, h5, mem, reads).status]
    /\ UNCHANGED <<natoms, excludepairs, energies, cutoff, external, neighborlist, par,
                   pos, box, forces, run, built>>

MakeIndecesMemory == \E mem \in {"cuda", "cpu"} : MakeIndeces(mem, <<>>)

MakeIndecesDisk ==
    /\ natoms >= 1
    /\ \E reads \in ReadSeqs(natoms, 1..MaxBlock, 0) : MakeIndeces("MemoryError", reads)

NextIdx == MakeIndecesMemory \/ MakeIndecesDisk

SpecIdx == InitIdx /\ [][NextIdx]_vars

\* the index pairs i < j of n atoms that no exclusion names in either orientation
AllowedPairs(n, ex) ==
    {c \in (0..n-1) \X (0..n-1) :
        /\ c[1] < c[2]
        /\ \A k \in 1..Len(ex) : ex[k] # c /\ ex[k] # <<c[2], c[1]>>}

\* C3: the in-memory _make_indeces returns exactly the pairs (i, j) with i < j
\* that no exclusion names as (i, j) or as (j, i), each of them once and none
\* with i = j: the result, the excluded pairs i < j, the self-pairs and the
\* pairs j < i partition the index pairs.
C3_MemoryPairsExact ==
    out.op = "mem" =>
        /\ ava_idx # None
        /\ Range(Val(ava_idx)) = AllowedPairs(natoms, excludepairs)
        /\ NoDup(Val(ava_idx))
        /\ \A k \in 1..Len(Val(ava_idx)) : Val(ava_idx)[k][1] # Val(ava_idx)[k][2]

\* C3 witness: three atoms, an exclusion listed as (j, i) with j > i, and a
\* non-empty in-memory result
C3_Witness ==
    /\ out.op = "mem"
    /\ natoms = 3
    /\ \E k \in 1..Len(excludepairs) : excludepairs[k][1] > excludepairs[k][2]
    /\ Len(Val(ava_idx)) = 2

\* C4: the table of the disk-paged construction holds the same set of pairs,
\* each once, as the in-memory construction of the same atoms and exclusions,
\* for every sequence of row-block sizes >= 1.
C4_PagedEqualsMemory ==
    out.op = "paged" =>
        /\ out.status = "ok"
        /\ Range(Val(h5)) = Range(MakeIndecesMem(natoms, excludepairs))
        /\ NoDup(Val(h5))

-----------------------------------------------------------------------------
(* The engine under compute calls: one system, nonbonded terms *)

MaxCoord == 4      \* the moving atom sits at x = 2..MaxCoord of the x axis
MaxChunk == 3      \* chunk-size readings 1..MaxChunk

AtomCounts == {3}
Cutoffs == {None, Some(1)}
Skins == {None, Some(0)}
Steps == {0, 2, 5, 10}
Reconsteps == {None, Some(0), Some(1), Some(2)}
Boxes == {Zero3}
Tiers == {"device", "host", "disk"}

\* exclusion lists of the engines: none, or every pair of three atoms
EngineExclusions == {<<>>, <<<<0, 1>>, <<0, 2>>, <<1, 2>>>>}

Point(x) == <<x, 0, 0>>

\* coordinates of n atoms in a row: the first n-1 at rest one unit apart, the
\* last one anywhere beyond them
PosConfigs(n) ==
    {[i \in 1..n |-> IF i < n THEN Point(i - 1) ELSE Point(x)] : x \in (n - 1)..MaxCoord}

\* the tables the paged construction can leave for the engine
PagedTables(n, ex) ==
    {r.rows : r \in {q \in {MakeIndecesPaged(n, ex, reads) :
                                reads \in ReadSeqs(n, 1..MaxBlock, 0)} : q.status = "ok"}}

\* the engine after Forces.__init__ with a nonbonded term on one of the three
\* tiers, and the caller's first coordinates
Init ==
    /\ natoms \in AtomCounts
    /\ excludepairs \in EngineExclusions
    /\ energies = {"lj", "electrostatics"}
    /\ cutoff \in Cutoffs
    /\ external = None
    /\ \E tier \in Tiers :
          IF tier = "disk"
          THEN /\ ava_idx = None
               /\ ava_dev = "none"
               /\ h5 \in {Some(t) : t \in PagedTables(natoms, excludepairs)}
          ELSE /\ ava_idx = Some(MakeIndecesMem(natoms, excludepairs))
               /\ ava_dev = (IF tier = "device" THEN "cuda" ELSE "cpu")
               /\ h5 = None
    /\ neighborlist = None
    /\ par = NoPar
    /\ pos \in PosConfigs(natoms)
    /\ box \in Boxes
    /\ forces = ZeroForces(natoms)
    /\ run = NoRun
    /\ built = None
    /\ out = Idle

StoredLen ==
    IF ava_idx # None THEN Len(Val(ava_idx))
    ELSE IF h5 # None THEN Len(Val(h5)) ELSE 0

SizeSeqs == ReadSeqs(StoredLen, 1..MaxChunk, 1)

\* only the device tier can run out of device memory at line 728
Ooms == IF Tier = "device" THEN {FALSE, TRUE} ELSE {FALSE}

\* compute(pos, box, forces, itstep=it, reconstep=rs, delt_r=dr), called once
\* the caller has taken the previous call's result
ComputeTraj ==
    /\ out = Idle
    /\ \E it \in Steps, rs \in Reconsteps, dr \in Skins, sizes \in SizeSeqs, oom \in Ooms :
        Compute([itstep |-> Some(it), reconstep |-> rs, delt_r |-> dr,
                 sizes |-> sizes, oom |-> oom])
    /\ UNCHANGED <<run, built>>

\* compute(pos, box, forces)
ComputeSingle ==
    /\ out = Idle
    /\ \E sizes \in SizeSeqs, oom \in Ooms :
        \E ot \in OomTerms(oom) :
            Compute([itstep |-> None, reconstep |-> None, delt_r |-> None,
                     sizes |-> sizes, oom |-> oom, oom_terms |-> ot])
    /\ UNCHANGED <<run, built>>

\* the caller takes the result of the call
Return ==
    /\ out # Idle
    /\ out' = Idle
    /\ UNCHANGED <<natoms, excludepairs, energies, cutoff, external, ava_idx, ava_dev, h5,
                   neighborlist, par, pos, box, forces, run, built>>

\* the caller moves the atoms between two calls
Move ==
    /\ out = Idle
    /\ \E np \in PosConfigs(natoms) : np # pos /\ pos' = np
    /\ UNCHANGED <<natoms, excludepairs, energies, cutoff, external, ava_idx, ava_dev, h5,
                   neighborlist, par, box, forces, run, built, out>>

Next == ComputeTraj \/ ComputeSingle \/ Return \/ Move

Spec == Init /\ [][Next]_vars

\* the candidate pairs the engine streams: self.ava_idx, or the rows of the file
Candidates == IF ava_idx # None THEN Val(ava_idx) ELSE Val(h5)

\* the candidate pairs within distance r at the coordinates of the call
CandidatesWithin(r) == {pr \in Range(Candidates) : WithinSq(Dist2(pos, box, pr), r)}

\* the last call was a trajectory-mode call that entered the nonbonded section
TrajCall == out.op = "compute" /\ out.itstep # None /\ cutoff # None /\ Len(Candidates) > 0

\* the skin the last call asked for: delt_r, or the cutoff when it gave none
SkinOf(o) == IF o.delt_r = None THEN Val(cutoff) ELSE Val(o.delt_r)

\* C2: in trajectory mode, after a call with itstep % reconstep = 0 the
\* neighbor list holds exactly the candidate pairs within cutoff + skin of the
\* call's coordinates, each once and nothing of the previous list, on every
\* tier and for zero, one or many iterations of the streaming loop.
C2_RebuildExact ==
    (TrajCall /\ out.rebuilt # None) =>
        /\ out.status = "ok"
        /\ neighborlist # None
        /\ NoDup(Val(neighborlist))
        /\ Range(Val(neighborlist)) = CandidatesWithin(Val(cutoff) + SkinOf(out))

\* the last call was a single-shot call that entered the nonbonded section
SingleCall == out.op = "compute" /\ out.itstep = None /\ Len(Candidates) > 0

\* C5: in single-shot mode, for every sequence of chunk sizes >= 1, every
\* candidate pair lies in exactly one chunk and the pairs evaluated are those of
\* a one-piece evaluation of the whole candidate set; the result is the one of
\* the device tier of the same atoms and exclusions on the host and disk tiers.
C5_SingleShotSameOnTiers ==
    SingleCall =>
        /\ out.status = "ok"
        /\ Flatten(out.chunks) = Candidates
        /\ out.evaluated = CutoffFiltered(Candidates, pos, box)
        /\ Range(out.evaluated)
             = Range(CutoffFiltered(MakeIndecesMem(natoms, excludepairs), pos, box))

C8_NoCacheRaises ==
    (TrajCall /\ EffReconstep(out) > 1 /\ Val(out.itstep) % EffReconstep(out) # 0
       /\ out.nl0 = "None") =>
        /\ out.status = "ValueError: start from 0"
        /\ out.evaluated = <<>>
        /\ neighborlist = None
        /\ out.pot_bonds = None

\* C8 witness: the error on the disk tier, at step 5 of a run with reconstep 2
C8_Witness ==
    /\ TrajCall /\ out.nl0 = "None"
    /\ out.itstep = Some(5) /\ out.reconstep = Some(2)
    /\ out.status = "ValueError: start from 0"
    /\ out.path = "disk"

\* C9: without delt_r every rebuild keeps the candidate pairs within 2 * cutoff
\* and succeeds, on every tier, also when the whole candidate set fits the
\* first chunk and only the block after the loop runs.
C9_DefaultSkinRebuild ==
    (TrajCall /\ out.rebuilt # None /\ out.delt_r = None) =>
        /\ out.status = "ok"
        /\ neighborlist # None
        /\ Range(Val(neighborlist)) = CandidatesWithin(2 * Val(cutoff))

\* C10: in trajectory mode with a non-empty candidate set, reconstep <= 1
\* raises before the neighbor list is read or changed; an omitted reconstep is
\* 10: the rebuild is entered exactly on the steps divisible by 10.
C10_ReconstepCheck ==
    TrajCall =>
        /\ (out.reconstep # None /\ Val(out.reconstep) <= 1) =>
              /\ out.status = "ValueError: reconstep"
              /\ out.nl0 \in {"None", "same"}
              /\ out.rebuilt = None
              /\ out.evaluated = <<>>
        /\ out.reconstep = None =>
              /\ out.status # "ValueError: reconstep"
              /\ out.rebuilt # None <=> Val(out.itstep) % 10 = 0

\* C10 witness: reconstep 1 refused with a list in the cache, and a call
\* without reconstep that skips the rebuild at step 5
C10_Witness ==
    /\ TrajCall
    /\ \/ out.reconstep = Some(1) /\ out.nl0 = "same" /\ out.status = "ValueError: reconstep"
       \/ out.reconstep = None /\ out.itstep = Some(5) /\ out.rebuilt = None
             /\ out.status = "ok"

\* C11: the neighbor list is None after construction and only a
\* trajectory-mode call with itstep % reconstep = 0 changes it: single-shot
\* calls (no itstep, or no cutoff) and calls on other steps leave it as it
\* was; no call changes the candidate pairs.
C11_NeighborListFrame ==
    /\ neighborlist = None
    /\ [][/\ ava_idx' = ava_idx /\ h5' = h5
          /\ neighborlist' # neighborlist =>
                /\ out'.op = "compute" /\ out'.itstep # None /\ cutoff # None
                /\ LET rs == IF out'.reconstep = None THEN 10 ELSE Val(out'.reconstep)
                   IN rs > 1 /\ Val(out'.itstep) % rs = 0]_vars

\* C11 witness: a single-shot call made with a list in the cache, which it
\* leaves in place
C11_Witness ==
    /\ out.op = "compute" /\ out.itstep = None /\ out.status = "ok"
    /\ out.nl0 = "same" /\ neighborlist # None /\ Len(Val(neighborlist)) > 0
    /\ out.evaluated # <<>>

-----------------------------------------------------------------------------
(* A trajectory on the device tier: the integrator calls compute with         *)
(* itstep = 0, 1, 2, ... and fixed reconstep and delt_r, the atoms move       *)
(* between the calls.                                                         *)

MaxStep == 3       \* the steps 0..MaxStep of the run are followed
MaxTrack == 4      \* the two atoms of the run sit at x = 0..MaxTrack

RunReconsteps == {None, Some(2)}
RunSkins == {None, Some(0), Some(2)}

TrackConfigs ==
    {p \in [1..2 -> {Point(x) : x \in 0..MaxTrack}] : p[1] # p[2]}

InitVerlet ==
    /\ natoms = 2
    /\ excludepairs = <<>>
    /\ energies = {"lj"}
    /\ cutoff = Some(1)
    /\ external = None
    /\ ava_idx = Some(MakeIndecesMem(2, <<>>))
    /\ ava_dev = "cuda"
    /\ h5 = None
    /\ neighborlist = None
    /\ par = NoPar
    /\ pos \in TrackConfigs
    /\ box = Zero3
    /\ forces = ZeroForces(2)
    /\ run \in [k : {0}, reconstep : RunReconsteps, delt_r : RunSkins]
    /\ built = None
    /\ out = Idle

\* the integrator's call of step run.k
StepCompute ==
    /\ out = Idle
    /\ run.k <= MaxStep
    /\ \E sizes \in SizeSeqs :
        Compute([itstep |-> Some(run.k), reconstep |-> run.reconstep,
                 delt_r |-> run.delt_r, sizes |-> sizes, oom |-> FALSE])
    /\ run' = [run EXCEPT !.k = @ + 1]
    /\ built' = IF out'.rebuilt # None /\ out'.status = "ok"
                 THEN Some([pos |-> pos, k |-> run.k]) ELSE built

\* the atoms move between two steps
Drift ==
    /\ out = Idle
    /\ \E np \in TrackConfigs : np # pos /\ pos' = np
    /\ UNCHANGED <<natoms, excludepairs, energies, cutoff, external, ava_idx, ava_dev, h5,
                   neighborlist, par, box, forces, run, built, out>>

NextVerlet == StepCompute \/ Return \/ Drift

SpecVerlet == InitVerlet /\ [][NextVerlet]_vars

\* four times the squared distance of atom i from its place at the last rebuild
Moved4(i) ==
    LET v == [c \in 1..3 |-> pos[i][c] - Val(built).pos[i][c]]
    IN 4 * (v[1] * v[1] + v[2] * v[2] + v[3] * v[3])

\* C1: on the device tier with skin d >= 0, on every step at which no atom is
\* farther than d/2 from its place at the last rebuild, the pairs given to the
\* kernels (the cached list filtered to the cutoff) are exactly the candidate
\* pairs within the cutoff now, those of a full scan at the same coordinates.
C1_VerletListExact ==
    (/\ out.op = "compute" /\ out.status = "ok" /\ out.path = "device"
     /\ built # None
     /\ \A i \in 1..natoms : Moved4(i) <= SkinOf(out) * SkinOf(out)) =>
        /\ out.evaluated = filter_by_cutoff(Candidates, pos, box)
        /\ Range(out.evaluated) = CandidatesWithin(Val(cutoff))

\* C1 witness: a step without rebuild on which a pair that was beyond the
\* cutoff at the rebuild is evaluated, both atoms having moved by d/2
C1_Witness ==
    /\ out.op = "compute" /\ out.status = "ok" /\ out.rebuilt = None
    /\ built # None
    /\ out.delt_r = Some(2)
    /\ \A i \in 1..natoms : Moved4(i) = 4
    /\ ~WithinSq(Dist2(Val(built).pos, box, <<0, 1>>), Val(cutoff))
    /\ out.evaluated = <<<<0, 1>>>>

-----------------------------------------------------------------------------
(* A caller that passes increasing step indices that need not be consecutive *)
(* (a driver that evaluates every few steps, or resumes a run), on the device *)
(* tier with fixed reconstep.                                                 *)

InitJump ==
    /\ natoms = 2
    /\ excludepairs = <<>>
    /\ energies = {"lj"}
    /\ cutoff = Some(1)
    /\ external = None
    /\ ava_idx = Some(MakeIndecesMem(2, <<>>))
    /\ ava_dev = "cuda"
    /\ h5 = None
    /\ neighborlist = None
    /\ par = NoPar
    /\ pos \in TrackConfigs
    /\ box = Zero3
    /\ forces = ZeroForces(2)
    /\ run \in [k : {0}, reconstep : RunReconsteps, delt_r : {None}]
    /\ built = None
    /\ out = Idle

\* a call at some step s not before run.k; later calls use larger steps
JumpCompute ==
    /\ out = Idle
    /\ \E s \in run.k..MaxStep :
        /\ Compute([itstep |-> Some(s), reconstep |-> run.reconstep,
                    delt_r |-> run.delt_r, sizes |-> <<1>>, oom |-> FALSE])
        /\ run' = [run EXCEPT !.k = s + 1]
        /\ built' = IF out'.rebuilt # None /\ out'.status = "ok"
                     THEN Some([pos |-> pos, k |-> s]) ELSE built

NextJump == JumpCompute \/ Return \/ Drift

SpecJump == InitJump /\ [][NextJump]_vars

\* C12: a trajectory-mode call that reads the neighbor list at step s reads
\* a list built at a step no more than reconstep - 1 before s.
C12_CacheAge ==
    (out.op = "compute" /\ out.status = "ok" /\ built # None) =>
        Val(out.itstep) - Val(built).k <= EffReconstep(out) - 1

-----------------------------------------------------------------------------
(* A batch of BatchSize systems in trajectory mode on the device tier: in    *)
(* this specification pos, box and forces hold one entry per system.         *)

BatchSize == 2     \* pos.shape[0]

\* the coordinates of one system of the batch: atom 0 at the origin
BatchConfigs == {<<Point(0), Point(x)>> : x \in 1..MaxTrack}

\* "for i in range(nsystems)", lines 110-1070, from system i on: every system
\* runs the nonbonded section on the engine's one self.neighborlist, in turn
\* (nb is the outcome of system i); an exception ends the call. per collects
\* the pairs evaluated per system, rebuilt the chunks of the last rebuild.
RECURSIVE SystemsLoop(_, _, _, _, _, _)
SystemsLoop(nb, a, ps, bs, i, per) ==
    IF nb.status # "ok" THEN [status |-> nb.status, nl |-> nb.nl, per |-> per,
                              rebuilt |-> nb.rebuilt]
    ELSE IF i = Len(ps) THEN [status |-> "ok", nl |-> nb.nl,
                              per |-> Append(per, nb.evaluated), rebuilt |-> nb.rebuilt]
    ELSE SystemsLoop(NonbondedSection(nb.nl, a, ps[i + 1], bs[i + 1]), a, ps, bs, i + 1,
                     Append(per, nb.evaluated))

\* the effect of a batched call whose loop over the systems ended as loop,
\* on an engine without external potential
BatchEffect(loop, a) ==
    /\ forces' = [i \in 1..Len(pos) |-> BondsTerm(pos[i], box[i]).forces]
    /\ neighborlist' = loop.nl
    /\ out' = [op |-> "compute", path |-> Path(a), status |-> loop.status,
               itstep |-> a.itstep, reconstep |-> a.reconstep, delt_r |-> a.delt_r,
               evaluated |-> loop.per, rebuilt |-> loop.rebuilt]
    /\ UNCHANGED <<natoms, excludepairs, energies, cutoff, external, ava_idx, ava_dev, h5,
                   par, pos, box>>

\* Forces.compute on a batch
ComputeBatch(a) ==
    BatchEffect(SystemsLoop(NonbondedSection(neighborlist, a, pos[1], box[1]),
                            a, pos, box, 1, <<>>), a)

InitBatch ==
    /\ natoms = 2
    /\ excludepairs = <<>>
    /\ energies = {"lj"}
    /\ cutoff = Some(1)
    /\ external = None
    /\ ava_idx = Some(MakeIndecesMem(2, <<>>))
    /\ ava_dev = "cuda"
    /\ h5 = None
    /\ neighborlist = None
    /\ par = NoPar
    /\ pos \in [1..BatchSize -> BatchConfigs]
    /\ box = [i \in 1..BatchSize |-> Zero3]
    /\ forces = [i \in 1..BatchSize |-> ZeroForces(2)]
    /\ run \in [k : {0}, reconstep : RunReconsteps, delt_r : {None, Some(0)}]
    /\ built = None
    /\ out = Idle

\* the integrator's call of step run.k on the whole batch
StepBatch ==
    /\ out = Idle
    /\ run.k <= MaxStep
    /\ ComputeBatch([itstep |-> Some(run.k), reconstep |-> run.reconstep,
                     delt_r |-> run.delt_r, sizes |-> <<1>>, oom |-> FALSE])
    /\ run' = [run EXCEPT !.k = @ + 1]
    /\ built' = IF out'.rebuilt # None /\ out'.status = "ok"
                 THEN Some([pos |-> pos, k |-> run.k]) ELSE built

\* one system of the batch moves between two steps
DriftBatch ==
    /\ out = Idle
    /\ \E i \in 1..BatchSize, np \in BatchConfigs :
        np # pos[i] /\ pos' = [pos EXCEPT ![i] = np]
    /\ UNCHANGED <<natoms, excludepairs, energies, cutoff, external, ava_idx, ava_dev, h5,
                   neighborlist, par, box, forces, run, built, out>>

NextBatch == StepBatch \/ Return \/ DriftBatch

SpecBatch == InitBatch /\ [][NextBatch]_vars

\* C13: on every step of a batched trajectory, a system that has not moved
\* since the last reconstruction is evaluated on exactly the candidate pairs
\* within the cutoff at its own coordinates, whatever the coordinates of the
\* other systems of the batch.
C13_BatchIndependent ==
    (out.op = "compute" /\ out.status = "ok" /\ built # None) =>
        \A i \in 1..BatchSize :
            pos[i] = Val(built).pos[i] =>
                out.evaluated[i] = filter_by_cutoff(Candidates, pos[i], box[i])

-----------------------------------------------------------------------------
(* The bonds term alone: two atoms, one harmonic bond, single-shot calls.     *)
(* Lengths in half angstroms: r0 = 1.0 A is 2 and the distance 1.5 A is 3.    *)

BondLengths == {1, 2, 3, 4}
BondConstants == {100, 200}
BondRests == {2, 3}
OnAxis(x) == {<<x, 0, 0>>, <<-x, 0, 0>>, <<0, x, 0>>, <<0, -x, 0>>}

\* what the caller's buffer holds before the first call
BondBuffers == {ZeroForces(2), <<<<7, 0, 0>>, <<0, -7, 0>>>>}

InitBond ==
    /\ natoms = 2
    /\ excludepairs = <<>>
    /\ energies = {"bonds"}
    /\ cutoff = None
    /\ external = None
    /\ ava_idx = None
    /\ ava_dev = "none"
    /\ h5 \in {None, Some(<<>>), Some(<<<<0, 1>>>>)}
    /\ neighborlist = None
    /\ \E pr \in {<<0, 1>>, <<1, 0>>}, k0 \in BondConstants, r0 \in BondRests :
          par = [bonds |-> Some(<<pr>>), bond_params |-> Some(<<<<k0, r0>>>>)]
    /\ \E x \in BondLengths : \E q \in OnAxis(x) : pos = <<Zero3, q>>
    /\ box = Zero3
    /\ forces \in BondBuffers
    /\ run = NoRun
    /\ built = None
    /\ out = Idle

\* compute(pos, box, forces) and compute(pos, box, forces, itstep=0)
ComputeBonds ==
    /\ out = Idle
    /\ \E it \in {None, Some(0)} :
        Compute([itstep |-> it, reconstep |-> None, delt_r |-> None,
                 sizes |-> <<1>>, oom |-> FALSE])
    /\ UNCHANGED <<run, built>>

\* the same single-shot call once more, on the buffer the last call left
RepeatBonds ==
    /\ out.op = "compute" /\ out.itstep = None
    /\ Compute([itstep |-> None, reconstep |-> None, delt_r |-> None,
                sizes |-> <<1>>, oom |-> FALSE])
    /\ UNCHANGED <<run, built>>

NextBond == ComputeBonds \/ RepeatBonds \/ Return

SpecBond == InitBond /\ [][NextBond]_vars

\* the example: k = 100, r0 = 1.0 A, atoms at (0,0,0) and (1.5,0,0), zero box
ExampleBond ==
    /\ natoms = 2 /\ energies = {"bonds"} /\ cutoff = None
    /\ par.bond_params = Some(<<<<100, 2>>>>)
    /\ pos = <<Zero3, <<3, 0, 0>>>>
    /\ box = Zero3

-----------------------------------------------------------------------------
(* The checks at the head of compute: calls with and without explicit        *)
(* forces, on differentiable or plain coordinates that may hold non-finite   *)
(* values, on the device tier.                                               *)

\* atom 0 at the origin, atom 1 on the x axis or at a non-finite x
GuardCoords == {1, 3, NaN, PosInf, NegInf}
GuardConfigs == {<<Point(0), Point(x)>> : x \in GuardCoords}

\* no external potential, or one whose calculate returns energy 5 and a force
\* on both atoms, detached from the graph of pos or attached to it
Externals ==
    {None} \cup {Some([ene |-> 5, force |-> <<<<1, 0, 0>>, <<0, 2, 0>>>>, grad |-> g]) :
                    g \in BOOLEAN}

InitGuard ==
    /\ natoms = 2
    /\ excludepairs = <<>>
    /\ energies = {"lj"}
    /\ cutoff = Some(1)
    /\ external \in Externals
    /\ ava_idx = Some(MakeIndecesMem(2, <<>>))
    /\ ava_dev = "cuda"
    /\ h5 = None
    /\ neighborlist = None
    /\ par = NoPar
    /\ pos \in GuardConfigs
    /\ box = Zero3
    /\ forces \in BondBuffers
    /\ run = NoRun
    /\ built = None
    /\ out = Idle

\* a single-shot call or a trajectory step, in analytic or autodiff mode
GuardCompute ==
    /\ out = Idle
    /\ \E it \in {None, Some(0), Some(1)}, ef \in BOOLEAN, rg \in BOOLEAN :
        Compute([itstep |-> it, reconstep |-> Some(2), delt_r |-> Some(0),
                 sizes |-> <<1>>, oom |-> FALSE,
                 explicit_forces |-> ef, requires_grad |-> rg])
    /\ UNCHANGED <<run, built>>

\* the caller passes other coordinates
GuardMove ==
    /\ out = Idle
    /\ \E np \in GuardConfigs : np # pos /\ pos' = np
    /\ UNCHANGED <<natoms, excludepairs, energies, cutoff, external, ava_idx, ava_dev, h5,
                   neighborlist, par, box, forces, run, built, out>>

\* the caller passes another force buffer
GuardBuffer ==
    /\ out = Idle
    /\ \E f \in BondBuffers : f # forces /\ forces' = f
    /\ UNCHANGED <<natoms, excludepairs, energies, cutoff, external, ava_idx, ava_dev, h5,
                   neighborlist, par, pos, box, run, built, out>>

NextGuard == GuardCompute \/ Return \/ GuardMove \/ GuardBuffer

SpecGuard == InitGuard /\ [][NextGuard]_vars

\* some coordinate of the call is NaN, +inf or -inf
NonFinitePos == \E i \in DOMAIN pos : \E c \in 1..3 : ~Finite(pos[i][c])

\* C15: a call given a non-finite coordinate raises before the force buffer
\* is zeroed and before the neighbor list is read or changed.
C15_NonFiniteRaises ==
    [][(out'.op = "compute" /\ NonFinitePos) =>
          /\ out'.status \in {"RuntimeError: NaN", "RuntimeError: requires_grad"}
          /\ forces' = forces
          /\ neighborlist' = neighborlist]_vars

\* C16: a call with explicit_forces=False on coordinates that do not require
\* grad raises before the buffer is zeroed and before any term is evaluated:
\* the buffer and the neighbor list are as they were.
C16_AutodiffNeedsGrad ==
    [][(out'.op = "compute" /\ ~out'.explicit_forces /\ ~out'.requires_grad) =>
          /\ out'.status = "RuntimeError: requires_grad"
          /\ forces' = forces
          /\ neighborlist' = neighborlist
          /\ out'.evaluated = <<>> /\ out'.rebuilt = None
          /\ out'.pot_bonds = None]_vars

\* C16 witness: such a call on a rebuild step, with a list in the cache that
\* the step would replace and a buffer that holds other numbers
C16_Witness ==
    /\ out.op = "compute" /\ ~out.explicit_forces /\ ~out.requires_grad
    /\ out.status = "RuntimeError: requires_grad"
    /\ out.itstep = Some(0)
    /\ neighborlist # None
    /\ neighborlist # Some(neighbor_verlet_list(Candidates, pos, box, 0))
    /\ forces # ZeroForces(2)

\* C18: a call that returns has called the external potential once, reports
\* its energy as the external entry, and leaves its force in the buffer on
\* top of the terms' forces, with explicit forces and with
\* explicit_forces=False; without external potential the entry is 0.
C18_ExternalAdded ==
    (out.op = "compute" /\ out.status = "ok") =>
        IF external = None
        THEN out.pot_external = Some(0) /\ out.ext_calls = 0
        ELSE /\ out.ext_calls = 1
             /\ out.pot_external = Some(Val(external).ene)
             /\ forces = AddForces(BondsTerm(pos, box).forces, Val(external).force)

-----------------------------------------------------------------------------
(* Forces.__init__ from its terms argument on.                               *)

Bonded == {"bonds", "angles", "dihedrals", "impropers", "1-4"}
Terms == Bonded \cup Nonbonded

\* the term names a caller passes here, one of them unknown
RawNames == {"bonds", "LJ", "lj", "Dihedrals", "1-4", "morse"}

\* str.lower() on those names
Lower(t) ==
    CASE t = "LJ" -> "lj"
      [] t = "Dihedrals" -> "dihedrals"
      [] OTHER -> t

MaxTerms == 2      \* terms lists of at most MaxTerms names

\* lines 41-54 on the terms argument (None or a list): the exception raised,
\* or "ok"
ValidateTerms(terms) ==
    IF terms = None THEN "RuntimeError: terms"
    ELSE LET ene == [k \in 1..Len(Val(terms)) |-> Lower(Val(terms)[k])]
         IN IF \E k \in 1..Len(ene) : ene[k] \notin Terms THEN "ValueError"
            ELSE IF "1-4" \in Range(ene) /\ "dihedrals" \notin Range(ene)
            THEN "RuntimeError: 1-4"
            ELSE "ok"

\* self.energies of line 46
LoweredTerms(terms) == {Lower(Val(terms)[k]) : k \in 1..Len(Val(terms))}

\* lines 56-70 once the terms are accepted, r what _make_indeces did
Constructed(terms, r) ==
    /\ energies' = LoweredTerms(terms)
    /\ IF LoweredTerms(terms) \cap Nonbonded # {}
       THEN /\ ava_idx' = r.ava_idx /\ ava_dev' = r.ava_dev /\ h5' = r.h5
            /\ out' = [op |-> "init", status |-> r.status, terms |-> terms,
                       indeces |-> r.op, existing |-> h5 # None]
       ELSE /\ ava_idx' = None /\ ava_dev' = "none" /\ h5' = h5
            /\ out' = [op |-> "init", status |-> "ok", terms |-> terms,
                       indeces |-> "none", existing |-> h5 # None]

\* Forces(parameters, terms): no object when the terms are rejected
New(terms, mem, reads) ==
    /\ out.op = "new"
    /\ IF ValidateTerms(terms) # "ok"
       THEN /\ out' = [op |-> "init", status |-> ValidateTerms(terms), terms |-> terms,
                       indeces |-> "none", existing |-> h5 # None]
            /\ UNCHANGED <<energies, ava_idx, ava_dev, h5>>
       ELSE Constructed(terms, IndecesResult(natoms, excludepairs, h5, mem, reads))
    /\ UNCHANGED <<natoms, excludepairs, cutoff, external, neighborlist, par,
                   pos, box, forces, run, built>>

TermLists == {None} \cup {Some(t) : t \in SeqsUpTo(RawNames, MaxTerms)}

InitNew ==
    /\ natoms \in 1..2
    /\ excludepairs \in SeqsUpTo(OrderedPairs(natoms), MaxExcl)
    /\ energies = {}
    /\ cutoff = None
    /\ external = None
    /\ ava_idx = None
    /\ ava_dev = "none"
    /\ h5 = None
    /\ neighborlist = None
    /\ par = NoPar
    /\ pos = <<>>
    /\ box = <<0, 0, 0>>
    /\ forces = <<>>
    /\ run = NoRun
    /\ built = None
    /\ out = Idle

NewMemory == \E terms \in TermLists, mem \in {"cuda", "cpu"} : New(terms, mem, <<>>)

NewDisk ==
    \E terms \in TermLists, reads \in ReadSeqs(natoms, 1..MaxBlock, 0) :
        New(terms, "MemoryError", reads)

\* the program goes on to construct another engine, for other atoms and
\* exclusions, in the same working directory: non-interactions.h5 stays
NewAgain ==
    /\ out.op = "init"
    /\ natoms' \in 1..2
    /\ excludepairs' \in SeqsUpTo(OrderedPairs(natoms'), MaxExcl)
    /\ energies' = {}
    /\ ava_idx' = None
    /\ ava_dev' = "none"
    /\ out' = Idle
    /\ UNCHANGED <<cutoff, external, h5, neighborlist, par, pos, box, forces, run, built>>

NextNew == NewMemory \/ NewDisk \/ NewAgain

SpecNew == InitNew /\ [][NextNew]_vars

\* C17: the constructor fails exactly when terms is None, when a lowercased
\* name is outside the nine names, or when 1-4 comes without dihedrals; when
\* it succeeds the candidate pairs exist exactly when a nonbonded term is on.
C17_ConstructorOutcome ==
    out.op = "init" =>
        /\ out.status # "ok" <=>
              \/ out.terms = None
              \/ \E k \in 1..Len(Val(out.terms)) :
                    Lower(Val(out.terms)[k]) \notin
                        {"bonds", "angles", "dihedrals", "impropers", "1-4",
                         "electrostatics", "lj", "repulsion", "repulsioncg"}
              \/ /\ \E k \in 1..Len(Val(out.terms)) : Val(out.terms)[k] = "1-4"
                 /\ \A k \in 1..Len(Val(out.terms)) : Lower(Val(out.terms)[k]) # "dihedrals"
        /\ out.status = "ok" =>
              (ava_idx # None \/ out.indeces = "paged") <=>
                  \E k \in 1..Len(Val(out.terms)) :
                      Lower(Val(out.terms)[k]) \in
                          {"electrostatics", "lj", "repulsion", "repulsioncg"}

-----------------------------------------------------------------------------
(* Engines with the 1-4 term: a chain of four atoms whose pairs are all      *)
(* excluded from the nonbonded candidates (bonds, angles and the 1-4 pair),  *)
(* so that only the 1-4 section evaluates the pair (0, 3).                   *)

\* the valid term sets with 1-4 followed here
TermSets14 ==
    {{"dihedrals", "1-4"} \cup extra :
        extra \in {{}, {"lj"}, {"electrostatics"}, {"lj", "electrostatics"}, {"bonds"},
                   {"bonds", "lj"}}}

ChainExclusions == <<<<0, 1>>, <<1, 2>>, <<2, 3>>, <<0, 2>>, <<1, 3>>, <<0, 3>>>>

Init14 ==
    /\ natoms = 4
    /\ excludepairs = ChainExclusions
    /\ energies \in TermSets14
    /\ cutoff \in {None, Some(1)}
    /\ external = None
    /\ IF require_distances
       THEN ava_idx = Some(MakeIndecesMem(4, ChainExclusions)) /\ ava_dev = "cuda" /\ h5 = None
       ELSE ava_idx = None /\ ava_dev = "none" /\ h5 = Some(<<>>)
    /\ neighborlist = None
    /\ \E b \in {None, Some(<<<<0, 1>>>>)}, i14 \in {None, Some(<<<<0, 3>>>>)} :
          par = [bonds |-> b,
                 bond_params |-> IF b = None THEN None ELSE Some(<<<<100, 2>>>>),
                 idx14 |-> i14]
    /\ pos \in PosConfigs(4)
    /\ box = Zero3
    /\ forces = ZeroForces(4)
    /\ run = NoRun
    /\ built = None
    /\ out = Idle

\* compute(pos, box, forces)
Compute14 ==
    /\ out = Idle
    /\ Compute([itstep |-> None, reconstep |-> None, delt_r |-> None,
                sizes |-> <<1>>, oom |-> FALSE])
    /\ UNCHANGED <<run, built>>

Next14 == Compute14 \/ Return \/ Move

Spec14 == Init14 /\ [][Next14]_vars

\* C19: with 1-4 enabled and 1-4 pairs in the topology, the call completes
\* for every valid term set, and every 1-4 pair is given to the LJ kernel
\* (when lj is enabled) and to the plain Coulomb kernel (when electrostatics
\* is), without cutoff, switching or reaction field, whatever its distance.
C19_OneFourAlways ==
    (out.op = "compute" /\ "1-4" \in energies /\ par.idx14 # None) =>
        /\ out.status = "ok"
        /\ "lj" \in energies =>
              out.lj14 = Some([pairs |-> Val(par.idx14), cutoff |-> None,
                               switch_dist |-> None])
        /\ "electrostatics" \in energies =>
              out.es14 = Some([pairs |-> Val(par.idx14), cutoff |-> None, rfa |-> FALSE])

-----------------------------------------------------------------------------
(* calculate_distances on its own: two atoms and a box that is absent, zero, *)
(* zero on some axes, or periodic on all three.                              *)

WrapCoords == -2..2
WrapBoxes == {None, Zero3, <<2, 0, 0>>, <<0, 3, 0>>, <<2, 3, 0>>, <<2, 2, 2>>, <<3, 3, 3>>}

InitWrap ==
    /\ natoms = 2
    /\ excludepairs = <<>>
    /\ energies = {}
    /\ cutoff = None
    /\ external = None
    /\ ava_idx = None
    /\ ava_dev = "none"
    /\ h5 = None
    /\ neighborlist = None
    /\ par = NoPar
    /\ pos \in {<<Zero3, <<x, y, 0>>>> : x \in WrapCoords, y \in WrapCoords}
    /\ box \in WrapBoxes
    /\ forces = ZeroForces(2)
    /\ run = NoRun
    /\ built = None
    /\ out = Idle

\* calculate_distances(pos, [[0, 1]], box) or calculate_distances(pos, [[1, 0]], box)
CalculateDistances ==
    /\ out = Idle
    /\ \E pr \in {<<0, 1>>, <<1, 0>>} :
        out' = [op |-> "calculate_distances", status |-> "ok", pair |-> pr,
                direction_vec |-> DirVec(pos, box, pr),
                dist2 |-> Dist2(pos, box, pr)]
    /\ UNCHANGED <<natoms, excludepairs, energies, cutoff, external, ava_idx, ava_dev, h5,
                   neighborlist, par, pos, box, forces, run, built>>

NextWrap == CalculateDistances \/ Return

SpecWrap == InitWrap /\ [][NextWrap]_vars

\* C20: on every axis whose box length is zero, and on every axis when the
\* box is absent, the displacement comes back as the plain difference of the
\* coordinates, a finite number.
C20_ZeroAxesUnwrapped ==
    out.op = "calculate_distances" =>
        \A c \in 1..3 :
            (box = None \/ box[c] = 0) =>
                /\ Finite(out.direction_vec[c])
                /\ out.direction_vec[c] =
                      pos[out.pair[1] + 1][c] - pos[out.pair[2] + 1][c]

MaxShift == 2      \* an atom is moved by at most MaxShift box lengths

\* the positions ps with atom at (counted from 0) moved by d along axis c
C21_Shifted(ps, at, c, d) ==
    [i \in 1..Len(ps) |->
        IF i = at + 1 THEN [k \in 1..3 |-> IF k = c THEN ps[i][k] + d ELSE ps[i][k]]
        ELSE ps[i]]

\* C21: with a zero box the displacement of a pair is pos[i] - pos[j]; with a
\* box of positive lengths every wrapped component lies in [-L/2, L/2], and
\* moving either atom by a whole number of box lengths along any axis leaves
\* the distance unchanged.
C21_WrapProperties ==
    out.op = "calculate_distances" =>
        /\ box = Zero3 =>
              out.direction_vec =
                  [c \in 1..3 |-> pos[out.pair[1] + 1][c] - pos[out.pair[2] + 1][c]]
        /\ (box # None /\ \A c \in 1..3 : box[c] > 0) =>
              /\ \A c \in 1..3 :
                    /\ 2 * out.direction_vec[c] <= box[c]
                    /\ 2 * out.direction_vec[c] >= -box[c]
              /\ \A at \in 0..1, c \in 1..3, k \in (-MaxShift)..MaxShift :
                    Dist2(C21_Shifted(pos, at, c, k * box[c]), box, out.pair) = out.dist2

\* a periodic box in which the wrapped displacement is not the plain difference
C21_Witness ==
    /\ out.op = "calculate_distances"
    /\ box # None
    /\ \A c \in 1..3 : box[c] > 0
    /\ \E c \in 1..3 :
          out.direction_vec[c] # pos[out.pair[1] + 1][c] - pos[out.pair[2] + 1][c]

------------------------------------------------------------------------------
(* The term kernels on their own: evaluate_torsion on one parameter group and *)
(* evaluate_LJ_internal on one pair.  Angles are whole multiples of pi / 4.    *)

pi == 4            \* math.pi, in units of a quarter of pi
MaxPhi0 == 9       \* reference angles phi0 lie in -MaxPhi0..MaxPhi0

\* the rows of torsion_params[i]["params"]: k0, phi0, per
TorsionTerms == [k0 : {1}, phi0 : (-MaxPhi0)..MaxPhi0, per : {0, 2}]

\* torsion_params[i]: one parameter group of one or two terms, term t being a
\* term of torsion t (idx = 0, 1, ...)
TorsionGroups == {<<t>> : t \in TorsionTerms} \cup (TorsionTerms \X TorsionTerms)

\* 'if torch.all(per > 0)': one decision for the whole parameter group
TorsionForm(group) ==
    IF \A t \in 1..Len(group) : group[t].per > 0 THEN "AMBER" ELSE "CHARMM"

\* the CHARMM branch: phi - phi0, then 2 pi added where it is below -pi, then
\* 2 pi taken off where it is above pi, each once
angleDiffCHARMM(phi, phi0) ==
    LET d == phi - phi0
        up == IF d < -pi THEN d + 2 * pi ELSE d
    IN IF up > pi THEN up - 2 * pi ELSE up

\* the loop body of evaluate_torsion on one parameter group: for every term the
\* form applied to it and the angle difference its energy and force are taken at
evaluate_torsion(phi, group) ==
    [t \in 1..Len(group) |->
        IF TorsionForm(group) = "AMBER"
        THEN [form |-> "AMBER", angleDiff |-> group[t].per * phi[t] - group[t].phi0]
        ELSE [form |-> "CHARMM", angleDiff |-> angleDiffCHARMM(phi[t], group[t].phi0)]]

------------------------------------------------------------------------------
(* Floating-point values of the pair kernels, kept exact as fractions <<n, d>> *)
(* in lowest terms with d > 0.                                                 *)

RECURSIVE GCD(_, _)
GCD(a, b) == IF b = 0 THEN a ELSE GCD(b, a % b)

Rat(n, d) ==
    LET g == GCD(IF n < 0 THEN -n ELSE n, IF d < 0 THEN -d ELSE d)
    IN IF d < 0 THEN <<(-n) \div g, (-d) \div g>> ELSE <<n \div g, d \div g>>

RInt(n) == <<n, 1>>
RMul(x, y) == Rat(x[1] * y[1], x[2] * y[2])
RDiv(x, y) == Rat(x[1] * y[2], x[2] * y[1])
RAdd(x, y) ==
    LET g == GCD(x[2], y[2])
    IN Rat(x[1] * (y[2] \div g) + y[1] * (x[2] \div g), (x[2] \div g) * y[2])
RSub(x, y) == RAdd(x, <<-y[1], y[2]>>)

\* 1 + t*t*t*(-10 + t*(15 - t*6))
switch_val(t) ==
    RAdd(RInt(1),
         RMul(RMul(RMul(t, t), t),
              RAdd(RInt(-10), RMul(t, RSub(RInt(15), RMul(t, RInt(6)))))))

\* t*t*(-30 + t*(60 - t*30)) / (cutoff - switch_dist)
switch_deriv(t, width) ==
    RDiv(RMul(RMul(t, t),
              RAdd(RInt(-30), RMul(t, RSub(RInt(60), RMul(t, RInt(30)))))),
         RInt(width))

\* the switched pair: 'force[mask] = switch_val*force[mask] +
\* pot[mask]*switch_deriv/dist[mask]' and 'pot[mask] = pot[mask]*switch_val'
Switched(dist, pot, force, sv, sd) ==
    [pot |-> RMul(pot, sv),
     force |-> RAdd(RMul(sv, force), RDiv(RMul(pot, sd), RInt(dist)))]

\* the unswitched pot and force of one pair at distance dist > 0
LJPlain(aa, bb, scale, rinv1, rinv6, rinv12) ==
    [pot |-> RDiv(RSub(RMul(RInt(aa), rinv12), RMul(RInt(bb), rinv6)), RInt(scale)),
     force |-> RDiv(RMul(RAdd(RMul(RInt(-12 * aa), rinv12), RMul(RInt(6 * bb), rinv6)),
                         rinv1),
                    RInt(scale))]

\* evaluate_LJ_internal on one pair, explicit forces; cut is its argument cutoff
evaluate_LJ_internal(dist, aa, bb, scale, switch_dist, cut) ==
    LET rinv1 == Rat(1, dist)
        rinv3 == RMul(RMul(rinv1, rinv1), rinv1)
        rinv6 == RMul(rinv3, rinv3)
        plain == LJPlain(aa, bb, scale, rinv1, rinv6, RMul(rinv6, rinv6))
    IN IF switch_dist # None /\ cut # None /\ dist > Val(switch_dist)
       THEN LET width == Val(cut) - Val(switch_dist)
                t == Rat(dist - Val(switch_dist), width)
            IN Switched(dist, plain.pot, plain.force, switch_val(t), switch_deriv(t, width))
       ELSE plain

------------------------------------------------------------------------------

InitKernel ==
    /\ natoms = 8
    /\ excludepairs = <<>>
    /\ energies = {"dihedrals", "lj"}
    /\ cutoff = None
    /\ external = None
    /\ ava_idx = None
    /\ ava_dev = "none"
    /\ h5 = None
    /\ neighborlist = None
    /\ par = NoPar
    /\ pos = <<>>
    /\ box = None
    /\ forces = <<>>
    /\ run = NoRun
    /\ built = None
    /\ out = Idle

\* evaluate_torsion(r12, r23, r34, torsion_params): phi = -atan2(sinPhi, cosPhi)
\* lies in [-pi, pi]
EvaluateTorsion ==
    /\ out = Idle
    /\ \E group \in TorsionGroups :
        \E phi \in [1..Len(group) -> (-pi)..pi] :
            out' = [op |-> "evaluate_torsion", status |-> "ok", phi |-> phi,
                    params |-> group, terms |-> evaluate_torsion(phi, group)]
    /\ UNCHANGED <<natoms, excludepairs, energies, cutoff, external, ava_idx, ava_dev, h5,
                   neighborlist, par, pos, box, forces, run, built>>

\* evaluate_LJ_internal(dist, aa, bb, scale, switch_dist, cutoff) on one pair
\* inside the cutoff, with and without the switching function
EvaluateLJ ==
    /\ out = Idle
    /\ \E dist \in 1..3, aa \in 0..2, bb \in 0..2, scale \in {1, 2},
          switch_dist \in {None, Some(1)}, cut \in {None, Some(3)} :
        out' = [op |-> "evaluate_LJ_internal", status |-> "ok", dist |-> dist,
                aa |-> aa, bb |-> bb, scale |-> scale,
                switch_dist |-> switch_dist, cutoff |-> cut,
                kernel |-> evaluate_LJ_internal(dist, aa, bb, scale, switch_dist, cut)]
    /\ UNCHANGED <<natoms, excludepairs, energies, cutoff, external, ava_idx, ava_dev, h5,
                   neighborlist, par, pos, box, forces, run, built>>

NextKernel == EvaluateTorsion \/ EvaluateLJ \/ Return

SpecKernel == InitKernel /\ [][NextKernel]_vars

\* C22: for the torsions evaluated in the CHARMM (harmonic) form, the angle
\* difference used for energy and force lies in (-pi, pi], for every torsion
\* angle in [-pi, pi] and every reference angle.
C22_AngleDiffWrapped ==
    out.op = "evaluate_torsion" =>
        \A t \in 1..Len(out.terms) :
            out.terms[t].form = "CHARMM" =>
                /\ out.terms[t].angleDiff > -pi
                /\ out.terms[t].angleDiff <= pi

\* C29: a torsion term gets the AMBER periodic form exactly when its own
\* periodicity is above zero and the CHARMM harmonic form otherwise, also in
\* a parameter group that mixes both kinds.
C29_FormPerTerm ==
    out.op = "evaluate_torsion" =>
        \A t \in 1..Len(out.terms) :
            out.terms[t].form =
                IF out.params[t].per > 0 THEN "AMBER" ELSE "CHARMM"

\* r to the power n
RECURSIVE C23_Pow(_, _)
C23_Pow(r, n) == IF n = 0 THEN 1 ELSE r * C23_Pow(r, n - 1)

\* the Lennard-Jones energy (aa / r^12 - bb / r^6) / scale and its derivative by r
C23_V(r, aa, bb, scale) ==
    RSub(Rat(aa, C23_Pow(r, 12) * scale), Rat(bb, C23_Pow(r, 6) * scale))
C23_dV(r, aa, bb, scale) ==
    RAdd(Rat(-12 * aa, C23_Pow(r, 13) * scale), Rat(6 * bb, C23_Pow(r, 7) * scale))

\* the switching polynomial S = 1 - 10 t^3 + 15 t^4 - 6 t^5 at
\* t = (r - switch_dist) / width, and its derivative by r
C23_S(t) ==
    LET t3 == RMul(RMul(t, t), t)
    IN RAdd(RAdd(RInt(1), RMul(RInt(-10), t3)),
            RAdd(RMul(RInt(15), RMul(t3, t)), RMul(RInt(-6), RMul(RMul(t3, t), t))))
C23_dS(t, width) ==
    LET t2 == RMul(t, t)
    IN RDiv(RAdd(RMul(RInt(-30), t2),
                 RAdd(RMul(RInt(60), RMul(t2, t)), RMul(RInt(-30), RMul(t2, t2)))),
            RInt(width))

\* dE/dr of the energy the kernel returns: V' for the plain pair, and
\* (V S)' = V' S + V S' for a pair beyond switch_dist
C23_dEdr(r, aa, bb, scale, switch_dist, cut) ==
    IF switch_dist # None /\ cut # None /\ r > Val(switch_dist)
    THEN LET width == Val(cut) - Val(switch_dist)
             t == Rat(r - Val(switch_dist), width)
         IN RAdd(RMul(C23_dV(r, aa, bb, scale), C23_S(t)),
                 RMul(C23_V(r, aa, bb, scale), C23_dS(t, width)))
    ELSE C23_dV(r, aa, bb, scale)

\* C23: the force of a term kernel is the negative gradient of the kernel's
\* energy; for the Lennard-Jones kernel, whose force is scattered along the
\* unit vector of the pair, the force coefficient is the derivative of the
\* returned energy by the distance, with and without the switching function.
C23_ForceIsGradient ==
    out.op = "evaluate_LJ_internal" =>
        /\ out.kernel.pot =
              IF out.switch_dist # None /\ out.cutoff # None /\ out.dist > Val(out.switch_dist)
              THEN RMul(C23_V(out.dist, out.aa, out.bb, out.scale),
                        C23_S(Rat(out.dist - Val(out.switch_dist),
                                  Val(out.cutoff) - Val(out.switch_dist))))
              ELSE C23_V(out.dist, out.aa, out.bb, out.scale)
        /\ out.kernel.force =
              C23_dEdr(out.dist, out.aa, out.bb, out.scale, out.switch_dist, out.cutoff)

------------------------------------------------------------------------------
(* Further properties of the engine under compute calls (Spec) *)

\* C24: when the device-resident evaluation of a single-shot call fails with
\* an allocation error, at line 728 or after some terms were already added,
\* the chunked evaluation that takes over leaves every term with every pair
\* of a failure-free evaluation counted exactly once.
C24_FallbackCountsOnce ==
    (out.op = "compute" /\ out.path = "fallback" /\ out.status = "ok" /\ out.itstep = None) =>
        \A j \in 1..Len(out.added) :
            out.added[j] = CutoffFiltered(Val(ava_idx), pos, box)

------------------------------------------------------------------------------
(* The single-shot streaming of the host tier, statement by statement: the    *)
(* sizing of lines 502-512, the while loop of lines 602-663 one iteration at  *)
(* a time, and the remainder block of lines 664-722.  run holds the position  *)
(* in the section: pc, the slice bounds p1 and p, and the parity of the       *)
(* number of loop iterations done.                                            *)

\* int(meminfo.free*0.8/(a2-a1)): the pairs that fit into the free device memory
ChunkReadings == 0..MaxChunk

InitStream ==
    /\ natoms \in 2..4
    /\ excludepairs = <<>>
    /\ energies \in {{"lj"}, {"lj", "electrostatics"}}
    /\ cutoff = None
    /\ external = None
    /\ ava_idx = Some(MakeIndecesMem(natoms, excludepairs))
    /\ ava_dev = "cpu"
    /\ h5 = None
    /\ neighborlist = None
    /\ par = NoPar
    /\ pos \in PosConfigs(natoms)
    /\ box = Zero3
    /\ forces = ZeroForces(natoms)
    /\ run = [pc |-> "idle", p1 |-> 0, p |-> 0, tick |-> 0]
    /\ built = None
    /\ out = Idle

\* lines 500-512: 'import pynvml', nvmlInit and the first reading
StreamStart ==
    /\ out = Idle
    /\ run.pc = "idle"
    /\ \E telemetry \in BOOLEAN, r \in ChunkReadings :
        IF telemetry
        THEN /\ run' = [pc |-> "loop", p1 |-> 0, p |-> r, tick |-> 0]
             /\ out' = out
        ELSE /\ run' = [run EXCEPT !.pc = "failed"]
             /\ out' = [op |-> "compute", status |-> "ImportError"]
    /\ UNCHANGED <<natoms, excludepairs, energies, cutoff, external, ava_idx, ava_dev, h5,
                   neighborlist, par, pos, box, forces, built>>

\* one iteration of 'while p < len(self.ava_idx)': the chunk self.ava_idx[p1:p]
\* is evaluated, then 'p1 = p' and 'p = p + int(meminfo.free*0.8/(a2-a1))'
StreamChunk ==
    /\ run.pc = "loop"
    /\ run.p < StoredLen
    /\ \E r \in ChunkReadings :
        run' = [pc |-> "loop", p1 |-> run.p, p |-> run.p + r, tick |-> 1 - run.tick]
    /\ UNCHANGED <<natoms, excludepairs, energies, cutoff, external, ava_idx, ava_dev, h5,
                   neighborlist, par, pos, box, forces, built, out>>

\* 'if p >= len(self.ava_idx)': the remainder self.ava_idx[p1:] is evaluated
\* and the section ends
StreamRemainder ==
    /\ run.pc = "loop"
    /\ run.p >= StoredLen
    /\ run' = [run EXCEPT !.pc = "done"]
    /\ out' = [op |-> "compute", status |-> "ok"]
    /\ UNCHANGED <<natoms, excludepairs, energies, cutoff, external, ava_idx, ava_dev, h5,
                   neighborlist, par, pos, box, forces, built>>

NextStream == StreamStart \/ StreamChunk \/ StreamRemainder \/ Return

\* the interpreter keeps executing the statements of the section
SpecStream == InitStream /\ [][NextStream]_vars /\ WF_vars(NextStream)

\* C25: for every sequence of free-memory readings, zero readings and
\* unavailable telemetry included, the streaming of the candidate pairs ends
\* after finitely many chunks: the remainder block is reached.
C25_StreamTerminates == <>(run.pc = "done")

------------------------------------------------------------------------------
(* Further properties of the construction (SpecIdx, SpecNew) *)

\* C26: in the disk-paged construction, with every exclusion given as (i, j)
\* with i < j, the table holds no excluded pair and misses no other pair
\* i < j, for any number of exclusions and any sequence of block sizes >= 1.
C26_PagedExclusionsApplied ==
    (out.op = "paged" /\ \A k \in 1..Len(excludepairs) : excludepairs[k][1] < excludepairs[k][2]) =>
        /\ out.status = "ok"
        /\ \A k \in 1..Len(excludepairs) : excludepairs[k] \notin Range(Val(h5))
        /\ AllowedPairs(natoms, excludepairs) \subseteq Range(Val(h5))

\* C28: an engine constructed onto the disk tier streams a table that holds
\* its own candidate pairs, also when a table of an earlier construction was
\* on disk when it was constructed.
C28_TableIsOwn ==
    (out.op = "init" /\ out.status = "ok" /\ out.indeces = "paged" /\ out.existing) =>
        /\ h5 # None
        /\ Range(Val(h5)) = AllowedPairs(natoms, excludepairs)

------------------------------------------------------------------------------
(* Further properties of the engine with only the bonds term (SpecBond) *)

\* C27: with no nonbonded term enabled, compute evaluates the bonded terms
\* and returns without reading candidate-pair storage: it succeeds whether
\* or not a file non-interactions.h5 exists.
C27_NoPairStorageRead ==
    (out.op = "compute" /\ energies \cap Nonbonded = {}) => out.status = "ok"

=============================================================================
